---- MODULE Spec2Model ----
(***************************************************************************)
(* A model of src/socket.rs: IcmpSocket, an owner of one raw OS socket     *)
(* descriptor and of a fixed peer address.                                 *)
(*                                                                         *)
(* The program's state is the set of IcmpSocket values the caller holds    *)
(* (socks) together with the part of the kernel the descriptors refer to   *)
(* (osOpen, osSock).  Every method of IcmpSocket is one action; the libc   *)
(* calls it makes are operators that give the set of outcomes the kernel   *)
(* can produce for the arguments the code passes.  The variable last is    *)
(* the observable record of the most recent call: the system calls it      *)
(* issued with their arguments, the raw return, and the value returned to  *)
(* the caller.                                                             *)
(***************************************************************************)
EXTENDS Integers, Sequences, FiniteSets, TLC

VARIABLES socks, origin, closes, osOpen, osSock, sysTtl, last

vars == <<socks, origin, closes, osOpen, osSock, sysTtl, last>>

(***************************************************************************)
(* Bounds of the model.                                                    *)
(***************************************************************************)
\* IcmpSocket values the caller creates over a run
MaxSockets == 2
\* length of the longest buffer handed to recv, recv_from and send
MaxLen == 2

Insts == 1..MaxSockets
\* the descriptors the kernel hands out: one is always free for a new socket
Fds == 1..MaxSockets
BufLens == 0..MaxLen

(***************************************************************************)
(* Values.                                                                 *)
(***************************************************************************)
\* socket.rs:10
IPPROTO_ICMP == 1

V4Hosts == {"127.0.0.1", "10.0.0.2"}
V6Hosts == {"::1"}

\* std::net::IpAddr, the portable address value (socket.rs:2)
IpAddrs == [variant : {"V4"}, host : V4Hosts] \cup [variant : {"V6"}, host : V6Hosts]
NoAddr == [variant |-> "none", host |-> "none"]

\* the addresses connect is called with: one of each variant (connect reads
\* only the variant).  Senders are any of IpAddrs.
PeerAddrs == {a \in IpAddrs : a.host \in {"127.0.0.1", "::1"}}

\* c::sockaddr, the native address value (socket.rs:22)
SockAddrs == [sa_family : {"AF_INET"}, sa_data : V4Hosts]
                 \cup [sa_family : {"AF_INET6"}, sa_data : V6Hosts]
NoSockAddr == [sa_family |-> "none", sa_data |-> "none"]

\* the u32 arguments set_ttl is called with: both ends of 0..255 and the
\* first value past it.  All are below 2^31, where the u32 the code passes
\* and the C int the kernel reads are the same number.
TtlArgs == {0, 255, 256}

\* std::io::Result as returned to the caller: the count or value, the address
\* (recv_from), the OS error code.  init says whether every byte the value was
\* computed from had been written.
Ok(v, a) == [ok |-> TRUE, val |-> v, addr |-> a, err |-> "none", init |-> TRUE]
Err(e) == [ok |-> FALSE, val |-> 0, addr |-> NoAddr, err |-> e, init |-> TRUE]

\* a raw system-call return: the value, errno when the value is -1, and what
\* the kernel wrote through the out-pointers (the sender address of recvfrom,
\* the option value of getsockopt)
Ret(n) == [ret |-> n, errno |-> "none", addr |-> NoSockAddr, slot |-> 0]
Fail(e) == [ret |-> -1, errno |-> e, addr |-> NoSockAddr, slot |-> 0]

\* an IcmpSocket slot of the caller: not yet constructed, live, or dropped
NoSock == [state |-> "none", fd |-> 0, peer |-> NoSockAddr]
Gone == [state |-> "dropped", fd |-> 0, peer |-> NoSockAddr]

\* a descriptor the kernel has not allocated
Closed == [family |-> "none", protocol |-> 0, ttl |-> 0]

(***************************************************************************)
(* History kept per instance, read only by the properties: the descriptor  *)
(* and address connect was given, and the last value a set_ttl succeeded   *)
(* with (-1: none yet).                                                    *)
(***************************************************************************)
NoOrigin == [fd |-> 0, addr |-> NoAddr, set |-> -1]

(***************************************************************************)
(* compat: the address conversions and the return-code convention.         *)
(***************************************************************************)
\* IntoInner<c::sockaddr> for IpAddr: the family tag of the variant and the
\* address bytes
into_inner(addr) ==
    [sa_family |-> IF addr.variant = "V4" THEN "AF_INET" ELSE "AF_INET6",
     sa_data |-> addr.host]

\* FromInner<c::sockaddr> for IpAddr: the variant of the family tag
from_inner(sa) ==
    [variant |-> IF sa.sa_family = "AF_INET" THEN "V4" ELSE "V6",
     host |-> sa.sa_data]

\* cvt: -1 becomes the error holding errno, anything else is the value
cvt(r) ==
    IF r.ret = -1 THEN [ok |-> FALSE, val |-> 0, err |-> r.errno]
    ELSE [ok |-> TRUE, val |-> r.ret, err |-> "none"]

\* err.kind(): the ErrorKind of an OS error code
kind(e) ==
    CASE e = "EINTR" -> "Interrupted"
      [] e = "EAGAIN" -> "WouldBlock"
      [] e = "EPERM" -> "PermissionDenied"
      [] OTHER -> "Other"

(***************************************************************************)
(* The kernel: for each libc call the code makes, the outcomes it can have *)
(* for the arguments passed, in the current kernel state.                  *)
(***************************************************************************)
LowestFree == CHOOSE f \in Fds \ osOpen : \A g \in Fds \ osOpen : f <= g

\* c::socket(family, SOCK_RAW, protocol): the lowest free descriptor, or a
\* refusal (no privilege for raw sockets; the process's table is full)
OsSocket(family, type, protocol) ==
    {Fail("EPERM"), Fail("EMFILE")}
        \cup (IF Fds \ osOpen = {} THEN {} ELSE {Ret(LowestFree)})

\* c::recv(fd, buf, len, 0): a datagram cut to len bytes, or a failure
OsRecv(fd, len) ==
    IF fd \notin osOpen THEN {Fail("EBADF")}
    ELSE {Ret(n) : n \in 0..len} \cup {Fail("EINTR"), Fail("EAGAIN")}

\* c::recvfrom(fd, buf, len, 0, &peer, &len16): as recv; on success the
\* kernel also writes the sender, any host of the socket's family, into peer
OsRecvfrom(fd, len) ==
    IF fd \notin osOpen THEN {Fail("EBADF")}
    ELSE {[Ret(n) EXCEPT !.addr = sa] :
              n \in 0..len,
              sa \in {x \in SockAddrs : x.sa_family = osSock[fd].family}}
            \cup {Fail("EINTR"), Fail("EAGAIN")}

\* c::sendto(fd, buf, len, 0, &dest, size_of(sockaddr)): the count the
\* kernel accepted, or a failure.  An AF_INET6 socket refuses a destination
\* of the length of the generic sockaddr, which is shorter than its own.
OsSendto(fd, len, dest) ==
    IF fd \notin osOpen THEN {Fail("EBADF")}
    ELSE IF osSock[fd].family = "AF_INET6" THEN {Fail("EINVAL")}
    ELSE {Ret(n) : n \in 0..len} \cup {Fail("EINTR"), Fail("EPERM")}

\* c::setsockopt(fd, IPPROTO_IP, IP_TTL, &val, 4): a raw AF_INET6 socket has
\* no IPPROTO_IP options; 1..255 are stored; 0 is stored or refused, by
\* platform; anything larger is refused
OsSetsockopt(fd, val) ==
    IF fd \notin osOpen THEN {Fail("EBADF")}
    ELSE IF osSock[fd].family = "AF_INET6" THEN {Fail("ENOPROTOOPT")}
    ELSE IF val \in 1..255 THEN {Ret(0)}
    ELSE IF val = 0 THEN {Ret(0), Fail("EINVAL")}
    ELSE {Fail("EINVAL")}

\* the option the socket holds after that setsockopt returned r
OsTtlAfter(fd, val, r) == IF r.ret = 0 THEN val ELSE osSock[fd].ttl

\* c::getsockopt(fd, IPPROTO_IP, IP_TTL, &slot, &len): the stored option, the
\* system default when none is stored
OsGetsockopt(fd) ==
    IF fd \notin osOpen THEN {Fail("EBADF")}
    ELSE IF osSock[fd].family = "AF_INET6" THEN {Fail("ENOPROTOOPT")}
    ELSE {[Ret(0) EXCEPT !.slot = IF osSock[fd].ttl = -1 THEN sysTtl
                                                       ELSE osSock[fd].ttl]}

\* c::close(fd): the descriptor is released whatever close returns
OsClose(fd) ==
    IF fd \notin osOpen THEN {Fail("EBADF")} ELSE {Ret(0), Fail("EIO")}

(***************************************************************************)
(* The record of a call: the operation and instance, the system calls it   *)
(* issued, the arguments that went to the kernel (family and protocol of   *)
(* socket, the destination of sendto), the caller's argument (a buffer     *)
(* length or a ttl), the address given to connect, the raw return, the     *)
(* result, the number of descriptors open before the call, and, for a send *)
(* that directly follows a recv_from on the same instance, the sender that *)
(* recv_from reported.                                                     *)
(***************************************************************************)
Idle ==
    [op |-> "none", inst |-> 0, calls |-> <<>>, family |-> "none", protocol |-> 0,
     dest |-> NoSockAddr, arg |-> 0, addr |-> NoAddr, raw |-> Ret(0),
     result |-> Ok(0, NoAddr), openBefore |-> 0, heard |-> NoAddr]

Called(op, i, call, arg, r, res) ==
    [Idle EXCEPT !.op = op, !.inst = i, !.calls = <<call>>, !.arg = arg,
                 !.raw = r, !.result = res, !.openBefore = Cardinality(osOpen)]

(***************************************************************************)
(* IcmpSocket                                                              *)
(***************************************************************************)
\* a faulty variant: connect with one family for both variants
FamilyOf_inet_only(addr) == "AF_INET"

\* connect, the match on the address variant
FamilyOf(addr) == IF addr.variant = "V4" THEN "AF_INET" ELSE "AF_INET6"

\* a faulty variant: connect without the ?: the return of socket is stored unchecked
connect_result_unchecked(c, addr) ==
    [ok |-> TRUE,
     sock |-> [state |-> "live", fd |-> IF c.ok THEN c.val ELSE -1, peer |-> into_inner(addr)],
     err |-> "none"]

\* connect, from the converted return of socket: the ? and the Ok(IcmpSocket)
connect_result(c, addr) ==
    IF c.ok
    THEN [ok |-> TRUE, sock |-> [state |-> "live", fd |-> c.val, peer |-> into_inner(addr)],
          err |-> "none"]
    ELSE [ok |-> FALSE, sock |-> NoSock, err |-> c.err]

connect(i, addr) ==
    /\ socks[i].state = "none"
    /\ \A j \in Insts : j < i => socks[j].state # "none"
    /\ \E r \in OsSocket(FamilyOf(addr), "SOCK_RAW", IPPROTO_ICMP) :
         LET res == connect_result(cvt(r), addr) IN
         /\ osOpen' = IF r.ret = -1 THEN osOpen ELSE osOpen \cup {r.ret}
         /\ osSock' = IF r.ret = -1 THEN osSock
                       ELSE [osSock EXCEPT ![r.ret] =
                                [family |-> FamilyOf(addr), protocol |-> IPPROTO_ICMP,
                                 ttl |-> -1]]
         /\ socks' = IF res.ok THEN [socks EXCEPT ![i] = res.sock] ELSE socks
         /\ origin' = IF res.ok
                       THEN [origin EXCEPT ![i] = [NoOrigin EXCEPT !.fd = r.ret, !.addr = addr]]
                       ELSE origin
         /\ last' = [Called("connect", i, "socket", 0, r,
                            IF res.ok THEN Ok(res.sock.fd, NoAddr) ELSE Err(res.err))
                        EXCEPT !.family = FamilyOf(addr), !.protocol = IPPROTO_ICMP,
                               !.addr = addr]
         /\ UNCHANGED <<closes, sysTtl>>

\* a faulty variant: recv with every failure, not only the interrupted one, read as an
\* empty datagram
recv_result_any_error(ret) == IF ret.ok THEN Ok(ret.val, NoAddr) ELSE Ok(0, NoAddr)

\* recv, the match on the converted return
recv_result(ret) ==
    IF ret.ok THEN Ok(ret.val, NoAddr)
    ELSE IF kind(ret.err) = "Interrupted" THEN Ok(0, NoAddr)
    ELSE Err(ret.err)

recv(i, len) ==
    /\ socks[i].state = "live"
    /\ \E r \in OsRecv(socks[i].fd, len) :
         LET res == recv_result(cvt(r)) IN
         /\ last' = Called("recv", i, "recv", len, r, res)
    /\ UNCHANGED <<socks, origin, closes, osOpen, osSock, sysTtl>>

\* recv_from, the match on the converted return; peer is the local address
\* buffer, [init, val]: whether recvfrom wrote it, and its bytes
recv_from_result(ret, peer) ==
    IF ret.ok
    THEN [Ok(ret.val, from_inner(peer.val)) EXCEPT !.init = peer.init]
    ELSE IF kind(ret.err) = "Interrupted"
    THEN [Ok(0, from_inner(peer.val)) EXCEPT !.init = peer.init]
    ELSE Err(ret.err)

\* the bytes of a local left as mem::uninitialized(): whatever the stack
\* held, any address value here.  Where recvfrom goes on to overwrite them
\* (r succeeded) they are never read, and one value stands for all.
Uninitialized(r) == IF r.ret = -1 THEN SockAddrs ELSE {NoSockAddr}

\* recv_from: peer starts uninitialized and is written by the kernel only
\* when recvfrom succeeds
recv_from(i, len) ==
    /\ socks[i].state = "live"
    /\ \E r \in OsRecvfrom(socks[i].fd, len) : \E garbage \in Uninitialized(r) :
         LET peer == IF r.ret = -1 THEN [init |-> FALSE, val |-> garbage]
                     ELSE [init |-> TRUE, val |-> r.addr]
             res == recv_from_result(cvt(r), peer) IN
         /\ last' = Called("recv_from", i, "recvfrom", len, r, res)
    /\ UNCHANGED <<socks, origin, closes, osOpen, osSock, sysTtl>>

\* a faulty variant: send that answers whoever was heard from last
send_dest_last_sender(self) ==
    IF last.op = "recv_from" /\ last.result.ok THEN into_inner(last.result.addr)
    ELSE self.peer

\* send, the destination handed to sendto: &self.peer
send_dest(self) == self.peer

\* a faulty variant: send that reports the whole buffer as sent
send_result_whole_buffer(ret, len) == IF ret.ok THEN Ok(len, NoAddr) ELSE Err(ret.err)

\* send, from the converted return: the ? and Ok(ret as usize)
send_result(ret, len) == IF ret.ok THEN Ok(ret.val, NoAddr) ELSE Err(ret.err)

send(i, len) ==
    /\ socks[i].state = "live"
    /\ \E r \in OsSendto(socks[i].fd, len, send_dest(socks[i])) :
         LET res == send_result(cvt(r), len) IN
         /\ last' = [Called("send", i, "sendto", len, r, res)
                        EXCEPT !.dest = send_dest(socks[i]),
                               !.heard = IF last.op = "recv_from" /\ last.inst = i
                                            /\ last.result.ok /\ last.result.init
                                         THEN last.result.addr ELSE NoAddr]
    /\ UNCHANGED <<socks, origin, closes, osOpen, osSock, sysTtl>>

\* set_ttl, the payload handed to setsockopt: &ttl as four bytes
set_ttl_payload(ttl) == ttl

\* set_ttl, from the converted return: the ? and Ok(())
set_ttl_result(ret) == IF ret.ok THEN Ok(0, NoAddr) ELSE Err(ret.err)

set_ttl(i, ttl) ==
    /\ socks[i].state = "live"
    /\ \E r \in OsSetsockopt(socks[i].fd, set_ttl_payload(ttl)) :
         LET res == set_ttl_result(cvt(r)) IN
         /\ osSock' = [osSock EXCEPT ![socks[i].fd].ttl =
                                        OsTtlAfter(socks[i].fd, set_ttl_payload(ttl), r)]
         /\ last' = Called("set_ttl", i, "setsockopt", ttl, r, res)
         /\ origin' = [origin EXCEPT ![i].set = IF res.ok THEN ttl ELSE @]
    /\ UNCHANGED <<socks, closes, osOpen, sysTtl>>

\* a faulty variant: ttl that returns the slot as it was zeroed
ttl_result_zeroed(ret, r) == IF ret.ok THEN Ok(0, NoAddr) ELSE Err(ret.err)

\* ttl, from the converted return and the slot: zeroed, then written by a
\* getsockopt that succeeds; the ? and Ok(slot)
ttl_result(ret, r) == IF ret.ok THEN Ok(r.slot, NoAddr) ELSE Err(ret.err)

ttl(i) ==
    /\ socks[i].state = "live"
    /\ \E r \in OsGetsockopt(socks[i].fd) :
         LET res == ttl_result(cvt(r), r) IN
         /\ last' = Called("ttl", i, "getsockopt", 0, r, res)
    /\ UNCHANGED <<socks, origin, closes, osOpen, osSock, sysTtl>>

\* a faulty variant: a drop that lets go of the value without closing its descriptor
drop_without_close(i) ==
    /\ socks[i].state = "live"
    /\ last' = [Idle EXCEPT !.op = "drop", !.inst = i,
                            !.openBefore = Cardinality(osOpen)]
    /\ socks' = [socks EXCEPT ![i] = Gone]
    /\ origin' = [origin EXCEPT ![i] = NoOrigin]
    /\ UNCHANGED <<closes, osOpen, osSock, sysTtl>>

\* Drop for IcmpSocket: close(self.fd), its return discarded; drop returns
\* nothing
drop(i) ==
    /\ socks[i].state = "live"
    /\ \E r \in OsClose(socks[i].fd) :
         /\ last' = Called("drop", i, "close", 0, r, Idle.result)
    /\ osOpen' = osOpen \ {socks[i].fd}
    /\ osSock' = [f \in Fds |-> IF f = socks[i].fd THEN Closed ELSE osSock[f]]
    /\ closes' = [closes EXCEPT ![i] = @ + 1]
    /\ socks' = [socks EXCEPT ![i] = Gone]
    /\ origin' = [origin EXCEPT ![i] = NoOrigin]
    /\ UNCHANGED sysTtl

(***************************************************************************)
(* The specification: no socket exists, no descriptor is open, and the     *)
(* system's default ttl is the usual one.                                  *)
(***************************************************************************)
Init ==
    /\ socks = [i \in Insts |-> NoSock]
    /\ origin = [i \in Insts |-> NoOrigin]
    /\ closes = [i \in Insts |-> 0]
    /\ osOpen = {}
    /\ osSock = [f \in Fds |-> Closed]
    /\ sysTtl = 64
    /\ last = Idle

Next ==
    \/ \E i \in Insts, addr \in PeerAddrs : connect(i, addr)
    \/ \E i \in Insts, len \in BufLens : recv(i, len)
    \/ \E i \in Insts, len \in BufLens : recv_from(i, len)
    \/ \E i \in Insts, len \in BufLens : send(i, len)
    \/ \E i \in Insts, n \in TtlArgs : set_ttl(i, n)
    \/ \E i \in Insts : ttl(i)
    \/ \E i \in Insts : drop(i)

Spec == Init /\ [][Next]_vars

\* the shape of the state: each slot is an IcmpSocket {fd, peer} or empty, and
\* the kernel holds a family, a protocol and an IP_TTL option (-1: the system
\* default) per open descriptor
TypeOK ==
    /\ \A i \in Insts :
          \/ socks[i] \in {NoSock, Gone}
          \/ /\ socks[i].state = "live"
             /\ socks[i].fd \in Fds
             /\ socks[i].peer \in SockAddrs
    /\ closes \in [Insts -> 0..1]
    /\ osOpen \subseteq Fds
    /\ \A f \in Fds :
          IF f \in osOpen
          THEN /\ osSock[f].family \in {"AF_INET", "AF_INET6"}
               /\ osSock[f].protocol = IPPROTO_ICMP
               /\ osSock[f].ttl \in {-1} \cup 0..255
          ELSE osSock[f] = Closed
    /\ sysTtl \in 1..255

(***************************************************************************)
(* Properties                                                              *)
(***************************************************************************)
Live == {i \in Insts : socks[i].state = "live"}

\* the operations that return a Result
Fallible == {"connect", "recv", "recv_from", "send", "set_ttl", "ttl"}

\* C1: the descriptor of an IcmpSocket is closed exactly once, at
\* destruction: while the instance lives no close has been issued for it and
\* its descriptor is open, once it is dropped exactly one close has been
\* issued, and the kernel holds exactly one open descriptor per live instance
\* (none is left open by a dropped one, none is shared).
C1_ClosedExactlyOnceAtDrop ==
    /\ \A i \in Insts :
          /\ socks[i].state = "none" => closes[i] = 0
          /\ socks[i].state = "live" => closes[i] = 0 /\ socks[i].fd \in osOpen
          /\ socks[i].state = "dropped" => closes[i] = 1
    /\ \A i, j \in Live : i # j => socks[i].fd # socks[j].fd
    /\ osOpen = {socks[i].fd : i \in Live}

\* an instance has just been dropped, close itself reported a failure, the
\* descriptor is released all the same and another instance is still open
C1_Witness ==
    /\ last.op = "drop" /\ last.raw.ret = -1
    /\ socks[last.inst].state = "dropped" /\ closes[last.inst] = 1
    /\ Cardinality(osOpen) = last.openBefore - 1
    /\ Live # {}

\* C2: connect returns a socket or the error of the refused socket call, and
\* every socket it returned has a peer of the family of the address given,
\* which is the family its descriptor was created with.
C2_ConnectFamily ==
    /\ last.op = "connect" =>
          \/ last.result.ok /\ socks[last.inst].state = "live"
                /\ socks[last.inst].fd = last.result.val
          \/ ~last.result.ok /\ last.raw.ret = -1 /\ last.result.err = last.raw.errno
    /\ \A i \in Live :
          LET fam == IF origin[i].addr.variant = "V4" THEN "AF_INET" ELSE "AF_INET6" IN
          /\ origin[i].addr \in IpAddrs
          /\ socks[i].peer.sa_family = fam
          /\ osSock[socks[i].fd].family = fam

\* connect has just returned a socket for a v6 address
C2_Witness ==
    /\ last.op = "connect" /\ last.result.ok /\ last.addr.variant = "V6"
    /\ socks[last.inst].peer.sa_family = "AF_INET6"
    /\ osSock[socks[last.inst].fd].family = "AF_INET6"

\* C3: when the kernel refuses the socket, connect returns the error with the
\* kernel's code, creates no instance, issues no other system call, and
\* leaves the set of open descriptors as it was.
C3_RefusedSocketLeaksNothing ==
    (last.op = "connect" /\ last.raw.ret = -1) =>
        /\ ~last.result.ok /\ last.result.err = last.raw.errno
        /\ socks[last.inst].state = "none"
        /\ last.calls = <<"socket">>
        /\ Cardinality(osOpen) = last.openBefore
        /\ Cardinality(Live) = last.openBefore

\* a connect was refused for want of privilege while another socket is open
C3_Witness ==
    /\ last.op = "connect" /\ last.raw.ret = -1 /\ last.raw.errno = "EPERM"
    /\ ~last.result.ok
    /\ osOpen # {}

\* C4: an interrupted recv or recv_from returns success with count 0 after
\* its one system call, an interrupted send returns the error, and no other
\* failure of a system call becomes a success in any operation.
C4_InterruptionPolicy ==
    /\ (last.op \in {"recv", "recv_from"} /\ last.raw.ret = -1
            /\ last.raw.errno = "EINTR") =>
          last.result.ok /\ last.result.val = 0 /\ Len(last.calls) = 1
    /\ (last.op = "send" /\ last.raw.ret = -1 /\ last.raw.errno = "EINTR") =>
          ~last.result.ok /\ last.result.err = "EINTR"
    /\ (last.op \in Fallible /\ last.raw.ret = -1 /\ last.raw.errno # "EINTR") =>
          ~last.result.ok

\* a recv_from was interrupted and returned count 0
C4_Witness ==
    /\ last.op = "recv_from" /\ last.raw.ret = -1 /\ last.raw.errno = "EINTR"
    /\ last.result.ok /\ last.result.val = 0

\* C5: on an AF_INET socket, ttl() returns the value n in 0..255 of the last
\* set_ttl that succeeded, whatever calls other than a successful set_ttl came
\* between (failed set_ttl calls among them); before any set_ttl succeeded it
\* returns the system default, so a failed set_ttl changes nothing there
\* either.
C5_TtlReadsBackLastSet ==
    (last.op = "ttl" /\ last.result.ok
        /\ osSock[socks[last.inst].fd].family = "AF_INET") =>
        /\ origin[last.inst].set \in 0..255 => last.result.val = origin[last.inst].set
        /\ origin[last.inst].set = -1 => last.result.val = sysTtl

\* ttl() has just returned 255, the value of the last successful set_ttl
C5_Witness ==
    /\ last.op = "ttl" /\ last.result.ok /\ last.result.val = 255
    /\ origin[last.inst].set = 255

\* the ICMP protocol number of an address family: 1 for IPv4, 58 for IPv6
IcmpProtocolFor(family) == IF family = "AF_INET6" THEN 58 ELSE 1

\* C7: connect asks for the ICMP protocol number of the family of the address:
\* the protocol handed to socket is a function of the family, not one number
\* for both.
C7_ProtocolByFamily ==
    last.op = "connect" => last.protocol = IcmpProtocolFor(last.family)

\* C8: whenever recv_from returns an address, every byte it was decoded from
\* had been written, on the interrupted path too.
C8_AddressInitializedWhenDecoded ==
    (last.op = "recv_from" /\ last.result.ok) => last.result.init

\* C9: a live instance holds the descriptor connect allocated, still open, and
\* the peer connect was given; a send goes to that peer, whatever sender a
\* recv_from has reported.
C9_HandleAndPeerFixed ==
    /\ \A i \in Live :
          /\ socks[i].fd = origin[i].fd /\ socks[i].fd \in osOpen
          /\ socks[i].peer.sa_data = origin[i].addr.host
          /\ (socks[i].peer.sa_family = "AF_INET") = (origin[i].addr.variant = "V4")
    /\ last.op = "send" =>
          /\ last.dest.sa_data = origin[last.inst].addr.host
          /\ (last.dest.sa_family = "AF_INET") = (origin[last.inst].addr.variant = "V4")

\* a send that succeeded right after a recv_from reported a sender other than
\* the peer
C9_Witness ==
    /\ last.op = "send" /\ last.result.ok
    /\ last.heard # NoAddr /\ last.heard # origin[last.inst].addr
    /\ from_inner(last.dest) = origin[last.inst].addr

\* C10: recv, recv_from, send, set_ttl and ttl each issue one system call; a
\* failure other than an interruption comes back as the error with the same
\* code; a send the kernel accepted comes back with the accepted count.
C10_OneCallNoRetry ==
    last.op \in {"recv", "recv_from", "send", "set_ttl", "ttl"} =>
        /\ Len(last.calls) = 1
        /\ (last.raw.ret = -1 /\ last.raw.errno # "EINTR") =>
              ~last.result.ok /\ last.result.err = last.raw.errno
        /\ (last.op = "send" /\ last.raw.ret # -1) =>
              last.result.ok /\ last.result.val = last.raw.ret

\* a send of which the kernel accepted a part, less than the buffer
C10_Witness ==
    /\ last.op = "send" /\ last.raw.ret > 0 /\ last.raw.ret < last.arg
    /\ last.result.ok /\ last.result.val = last.raw.ret

====
